---------------------------- MODULE Spec2Model ----------------------------
(***************************************************************************)
(* M5StackTemperature: the activity-driven duty-cycle power scheduler of   *)
(* src/src/main.cpp.                                                       *)
(*                                                                         *)
(* Two specifications over the same state:                                 *)
(*   Spec    every handler (setup, one pass of loop, a BLE callback) runs   *)
(*           to completion as one step;                                    *)
(*   SpecIL  the statements of loop/setup and of the BLE callbacks          *)
(*           interleave (the callbacks run in the BLE stack's task).        *)
(***************************************************************************)
EXTENDS Integers, FiniteSets, Sequences, TLC

\* ---------------------------------------------------------------- bounds
\* The clock is capped: Tick stops at MaxClock (Spec), TickIL at MaxClockIL (SpecIL).
MaxClock == 10
MaxClockIL == 3

\* In SpecLive, the clock time from which no BLE or button event occurs.
QuietFrom == 2

\* ------------------------------------------------------- program constants
DUTY_CYCLE_AWAKE == 2
DUTY_CYCLE_SLEEP == 4
ACTIVITY_TIMEOUT == 8
DISCONNECT_HALT_MSEC == 10
RAND_MAX == 2147483647
USEC_PER_SEC == 1000000
USEC_PER_MSEC == 1000

\* SLEEP_SEC / SLEEP_MSEC: the argument of M5.Power.deepSleep is in microseconds.
SLEEP_SEC(s) == s * USEC_PER_SEC
SLEEP_MSEC(ms) == ms * USEC_PER_MSEC

\* Values rand() returns in the model: both ends of its range and the largest
\* remainder of % 40.
RandValues == {0, 39, RAND_MAX}

\* (int8_t) conversion: two's complement wrap to [-128, 127].
ToInt8(x) == ((x + 128) % 256) - 128

VARIABLES
    now,              \* the real-time clock read by time(), in seconds
    rtc,              \* the RTC_DATA_ATTR fields: timestamp, sleepTarget, dutyCycle, curTemp
    deviceConnected,  \* ordinary global, re-initialised on every boot
    pc,               \* position of the main task (setup/loop), or "asleep"
    cb,               \* position of the BLE callback task
    btn,              \* button releases sampled by M5.update() in the current pass of loop
    wakeAt,           \* clock time at which the ordered halt ends
    bootReason,       \* the boot in progress: "poweron", "wake" or "reset"; "none"
                      \* once setup has run
    atHalt,           \* history: the RTC fields at the moment of the halt, kept until
                      \* setup has run again
    lastExt,          \* history: the last prolongSleep call: caller, time of its time()
                      \* call, extension; act: the time of the latest onConnect/onRead
                      \* call since boot (-1: none); old: sleepTarget before the call,
                      \* while a callback's call is in progress (0 otherwise)
    last              \* history: the last completed operation

vars == <<now, rtc, deviceConnected, pc, cb, btn, wakeAt, bootReason, atHalt, lastExt, last>>

timestamp == rtc.timestamp
sleepTarget == rtc.sleepTarget
dutyCycle == rtc.dutyCycle
curTemp == rtc.curTemp

\* The initialisers of the RTC_DATA_ATTR fields.
RtcInit == [timestamp |-> 0, sleepTarget |-> 0, dutyCycle |-> FALSE, curTemp |-> 0]

NoButtons == [A |-> FALSE, B |-> FALSE, C |-> FALSE]
NoExt == [op |-> "none", t |-> 0, e |-> 0, act |-> -1, old |-> 0]
NoOp == [op |-> "none", n |-> 0, order |-> 0, outcome |-> "none", cmds |-> {}, r |-> 0,
         boot |-> "none", pre |-> [sleepTarget |-> 0, dutyCycle |-> FALSE],
         prevToggled |-> FALSE, btn |-> NoButtons]

\* Whether the operation recorded in l was a pass of loop that called
\* toggleDutyCycle and went on (no reset).
Toggled(l) == l.op = "loop" /\ "toggle" \in l.cmds /\ l.outcome # "reset"

\* A completed operation: what it was, the halt it ordered (microseconds, 0 for
\* none), how it ended, the button commands it dispatched, the rand() value it
\* drew, the boot it belongs to (setup only), sleepTarget and dutyCycle as they
\* were when it started, and whether the operation before it was a toggling pass
\* of loop, and the button releases it sampled (a pass of loop only). n
\* alternates, so that a step completes an operation exactly when it changes
\* last.n.
OpRecord(op, order, outcome, cmds, r) ==
    [op |-> op, n |-> 1 - last.n, order |-> order, outcome |-> outcome, cmds |-> cmds,
     r |-> r, boot |-> IF op = "setup" THEN bootReason ELSE "none",
     pre |-> [sleepTarget |-> rtc.sleepTarget, dutyCycle |-> rtc.dutyCycle],
     prevToggled |-> Toggled(last), btn |-> NoButtons]

\* ------------------------------------------------------------ pure helpers

\* time(&sleepTarget)
timeSleepTarget(m, t) == [m EXCEPT !.sleepTarget = t]

\* sleepTarget += seconds
addSleepTarget(m, seconds) == [m EXCEPT !.sleepTarget = @ + seconds]

\* prolongSleep mutated: keeps the later of the old and the new deadline.
prolongSleep_Max(m, t, seconds) ==
    [m EXCEPT !.sleepTarget = IF @ > t + seconds THEN @ ELSE t + seconds]

\* prolongSleep mutated: extends the existing deadline instead of re-anchoring it.
prolongSleep_NoTime(m, t, seconds) == addSleepTarget(m, seconds)

\* prolongSleep mutated: the extension is subtracted.
prolongSleep_Minus(m, t, seconds) == [timeSleepTarget(m, t) EXCEPT !.sleepTarget = @ - seconds]

\* prolongSleep(seconds) called when the clock reads t.
prolongSleep(m, t, seconds) == addSleepTarget(timeSleepTarget(m, t), seconds)

\* toggleDutyCycle mutated: sets instead of flipping.
toggleDutyCycle_Set(m, t) ==
    prolongSleep([m EXCEPT !.dutyCycle = TRUE], t, DUTY_CYCLE_AWAKE)

\* dutyCycle = !dutyCycle
flipDutyCycle(m) == [m EXCEPT !.dutyCycle = ~@]

\* toggleDutyCycle() called when the clock reads t.
toggleDutyCycle(m, t) == prolongSleep(flipDutyCycle(m), t, DUTY_CYCLE_AWAKE)

\* randTemp mutated: a wider modulus, which leaves the int8_t range.
randTemp_Wide(r) == ToInt8(ToInt8(r % 140) - 10)

\* curTemp = (int8_t)(rand() % 40) - 10, stored into an int8_t.
randTemp(r) == ToInt8(ToInt8(r % 40) - 10)

\* updateRandTemp() called when the clock reads t and rand() returns r.
updateRandTemp(m, t, r) ==
    [prolongSleep(m, t, ACTIVITY_TIMEOUT) EXCEPT !.curTemp = randTemp(r)]

\* timeTimestamp mutated: the time is stored into the deadline field.
timeTimestamp_WrongField(m, t) == [m EXCEPT !.sleepTarget = t]

\* time(&timestamp)
timeTimestamp(m, t) == [m EXCEPT !.timestamp = t]

\* sleepCondition mutated: the dutyCycle test is dropped.
sleepCondition_NoDutyCycle(m) == m.timestamp > m.sleepTarget

\* sleepCondition mutated: >= for >.
sleepCondition_Geq(m) == m.dutyCycle /\ m.timestamp >= m.sleepTarget

\* loop's test: dutyCycle && timestamp > sleepTarget
sleepCondition(m) == m.dutyCycle /\ m.timestamp > m.sleepTarget

\* deepSleepRetain mutated: curTemp is not kept (as without RTC_DATA_ATTR).
deepSleepRetain_LoseTemp(m) == [m EXCEPT !.curTemp = 0]

\* What the RTC_DATA_ATTR fields hold after a deep sleep: what they held before.
deepSleepRetain(m) == m

\* onDisconnectHalt mutated: the duty-cycle sleep instead of the short halt.
onDisconnectHalt_Long == SLEEP_SEC(DUTY_CYCLE_SLEEP)

\* The halt onDisconnect orders.
onDisconnectHalt == SLEEP_MSEC(DISCONNECT_HALT_MSEC)

\* The halt loop orders.
loopHalt == SLEEP_SEC(DUTY_CYCLE_SLEEP)

\* HaltSeconds mutated: the microsecond count is taken as seconds.
HaltSeconds_Micro(us) == us

\* Whole seconds of clock that pass before a halt of `us` microseconds ends.
HaltSeconds(us) == us \div USEC_PER_SEC

\* ------------------------------------------------------------------- Init
Init ==
    /\ now = 0
    /\ rtc = RtcInit
    /\ deviceConnected = FALSE
    /\ pc = "boot"
    /\ cb = "idle"
    /\ btn = NoButtons
    /\ wakeAt = 0
    /\ bootReason = "poweron"
    /\ atHalt = RtcInit
    /\ lastExt = NoExt
    /\ last = NoOp

\* ------------------------------------------------- environment and hardware

\* The real-time clock advances; it keeps running while the device is asleep.
Tick ==
    /\ now < MaxClock
    /\ now' = now + 1
    /\ UNCHANGED <<rtc, deviceConnected, pc, cb, btn, wakeAt, bootReason, atHalt, lastExt, last>>

\* The same clock, capped for SpecIL.
TickIL ==
    /\ now < MaxClockIL
    /\ now' = now + 1
    /\ UNCHANGED <<rtc, deviceConnected, pc, cb, btn, wakeAt, bootReason, atHalt, lastExt, last>>

\* M5.Power.deepSleep(us): execution stops; the RTC fields are kept.
Halt(us) ==
    /\ pc' = "asleep"
    /\ cb' = "idle"
    /\ btn' = NoButtons
    /\ wakeAt' = now + HaltSeconds(us)
    /\ atHalt' = rtc'

\* The halt ends: the chip boots again and setup() runs from its first line.
wake ==
    /\ pc = "asleep"
    /\ now >= wakeAt
    /\ pc' = "boot"
    /\ bootReason' = "wake"
    /\ rtc' = deepSleepRetain(rtc)
    /\ deviceConnected' = FALSE
    /\ wakeAt' = 0
    /\ UNCHANGED <<now, cb, btn, atHalt, lastExt, last>>

\* The commands one pass of loop dispatches for the sampled button releases:
\* lines 175 and 176 test BtnB and BtnC.
Dispatched(b) == (IF b.B THEN {"toggle"} ELSE {}) \cup (IF b.C THEN {"reset"} ELSE {})

\* A completed pass of loop that sampled the button releases b.
LoopRecord(order, outcome, b) ==
    [OpRecord("loop", order, outcome, Dispatched(b), 0) EXCEPT !.btn = b]

\* M5.Power.reset(): a restart that re-initialises every global, RTC fields included.
Reset(b) ==
    /\ pc' = "boot"
    /\ cb' = "idle"
    /\ btn' = NoButtons
    /\ bootReason' = "reset"
    /\ rtc' = RtcInit
    /\ deviceConnected' = FALSE
    /\ lastExt' = NoExt
    /\ atHalt' = RtcInit
    /\ last' = LoopRecord(0, "reset", b)
    /\ UNCHANGED <<now, wakeAt>>

\* The BLE stack delivers callbacks once setup has started advertising (line 146)
\* and until the device halts.
BleUp == pc \notin {"boot", "asleep"}

\* ------------------------------------------- Spec: handlers as single steps

\* setup mutated: the call of prolongSleep at its end is missing.
setup_NoProlong ==
    /\ pc = "boot"
    /\ rtc' = rtc
    /\ pc' = "loop"
    /\ lastExt' = [op |-> "setup", t |-> now, e |-> DUTY_CYCLE_AWAKE, act |-> -1, old |-> 0]
    /\ atHalt' = RtcInit
    /\ bootReason' = "none"
    /\ last' = OpRecord("setup", 0, "continue", {}, 0)
    /\ UNCHANGED <<now, deviceConnected, cb, btn, wakeAt>>

\* setup(): lines 110-149; its effect on the fields is the prolongSleep at line 148.
setup ==
    /\ pc = "boot"
    /\ rtc' = prolongSleep(rtc, now, DUTY_CYCLE_AWAKE)
    /\ pc' = "loop"
    /\ lastExt' = [op |-> "setup", t |-> now, e |-> DUTY_CYCLE_AWAKE, act |-> -1, old |-> 0]
    /\ atHalt' = RtcInit
    /\ bootReason' = "none"
    /\ last' = OpRecord("setup", 0, "continue", {}, 0)
    /\ UNCHANGED <<now, deviceConnected, cb, btn, wakeAt>>

loop(bA, bB, bC) ==
    /\ pc = "loop"
    /\ cb = "idle"
    /\ LET b == [A |-> bA, B |-> bB, C |-> bC]
           m1 == IF bB THEN toggleDutyCycle(rtc, now) ELSE rtc
           m2 == timeTimestamp(m1, now)
       IN IF bC
          THEN Reset(b)
          ELSE /\ rtc' = m2
               /\ lastExt' = IF bB
                             THEN [op |-> "toggleDutyCycle", t |-> now, e |-> DUTY_CYCLE_AWAKE,
                                   act |-> lastExt.act, old |-> 0]
                             ELSE lastExt
               /\ IF sleepCondition(m2)
                  THEN /\ Halt(loopHalt)
                       /\ last' = LoopRecord(loopHalt, "sleep", b)
                       /\ UNCHANGED <<now, deviceConnected, bootReason>>
                  ELSE /\ last' = LoopRecord(0, "continue", b)
                       /\ UNCHANGED <<now, deviceConnected, pc, cb, btn, wakeAt, bootReason,
                                      atHalt>>

onConnect ==
    /\ BleUp
    /\ cb = "idle"
    /\ ~deviceConnected
    /\ rtc' = prolongSleep(rtc, now, ACTIVITY_TIMEOUT)
    /\ deviceConnected' = TRUE
    /\ lastExt' = [op |-> "onConnect", t |-> now, e |-> ACTIVITY_TIMEOUT, act |-> now, old |-> 0]
    /\ last' = OpRecord("onConnect", 0, "continue", {}, 0)
    /\ UNCHANGED <<now, pc, cb, btn, wakeAt, bootReason, atHalt>>

onDisconnect ==
    /\ BleUp
    /\ cb = "idle"
    /\ deviceConnected
    /\ deviceConnected' = FALSE
    /\ rtc' = rtc
    /\ Halt(onDisconnectHalt)
    /\ last' = OpRecord("onDisconnect", onDisconnectHalt, "sleep", {}, 0)
    /\ UNCHANGED <<now, bootReason, lastExt>>

onRead(r) ==
    /\ BleUp
    /\ cb = "idle"
    /\ deviceConnected
    /\ rtc' = updateRandTemp(rtc, now, r)
    /\ lastExt' = [op |-> "onRead", t |-> now, e |-> ACTIVITY_TIMEOUT, act |-> now, old |-> 0]
    /\ last' = OpRecord("onRead", 0, "continue", {}, r)
    /\ UNCHANGED <<now, deviceConnected, pc, cb, btn, wakeAt, bootReason, atHalt>>

Next ==
    \/ Tick
    \/ wake
    \/ setup
    \/ \E bA \in BOOLEAN, bB \in BOOLEAN, bC \in BOOLEAN : loop(bA, bB, bC)
    \/ onConnect
    \/ onDisconnect
    \/ \E r \in RandValues : onRead(r)

Spec == Init /\ [][Next]_vars


\* ------------------- SpecLive: Spec with events that cease, and with fairness
\* The clock runs, a halt ends when its time is up, the boot runs setup, and the
\* main task calls loop again and again; connects, reads, disconnects and button
\* releases occur only before QuietFrom.
Quiet == now >= QuietFrom

NextLive ==
    \/ Tick
    \/ wake
    \/ setup
    \/ \E bA \in BOOLEAN, bB \in BOOLEAN, bC \in BOOLEAN :
           /\ ~Quiet \/ ~(bA \/ bB \/ bC)
           /\ loop(bA, bB, bC)
    \/ ~Quiet /\ onConnect
    \/ ~Quiet /\ onDisconnect
    \/ \E r \in RandValues : ~Quiet /\ onRead(r)

SpecLive ==
    /\ Init
    /\ [][NextLive]_vars
    /\ WF_vars(Tick)
    /\ WF_vars(wake)
    /\ WF_vars(setup)
    /\ WF_vars(loop(FALSE, FALSE, FALSE))


\* --------------------------------- SpecIL: statements of the two tasks interleave
\* The main task runs setup and loop statement by statement; the BLE task runs a
\* callback statement by statement; between any two statements of one task the
\* other task and the clock may step.

\* The prolongSleep call of callback op has returned: its old value is dropped
\* from the history, unless the main task's prolongSleep has replaced the entry.
CallDone(x, op) == IF x.op = op THEN [x EXCEPT !.old = 0] ELSE x

\* setup, lines 112-146: the peripherals and the BLE server are up, advertising.
setup_begin ==
    /\ pc = "boot"
    /\ pc' = "setup_time"
    /\ UNCHANGED <<now, rtc, deviceConnected, cb, btn, wakeAt, bootReason, atHalt, lastExt, last>>

\* setup, line 148 -> line 53.
setup_time ==
    /\ pc = "setup_time"
    /\ rtc' = timeSleepTarget(rtc, now)
    /\ lastExt' = [op |-> "setup", t |-> now, e |-> DUTY_CYCLE_AWAKE, act |-> -1, old |-> 0]
    /\ pc' = "setup_add"
    /\ UNCHANGED <<now, deviceConnected, cb, btn, wakeAt, bootReason, atHalt, last>>

\* setup, line 148 -> line 54; setup returns.
setup_add ==
    /\ pc = "setup_add"
    /\ rtc' = addSleepTarget(rtc, DUTY_CYCLE_AWAKE)
    /\ pc' = "loop"
    /\ atHalt' = RtcInit
    /\ bootReason' = "none"
    /\ last' = OpRecord("setup", 0, "continue", {}, 0)
    /\ UNCHANGED <<now, deviceConnected, cb, btn, wakeAt, lastExt>>

\* loop, lines 172-175 and 163: the buttons are sampled; a release of BtnB enters
\* toggleDutyCycle, which flips dutyCycle.
loop_update(bA, bB, bC) ==
    /\ pc = "loop"
    /\ btn' = [A |-> bA, B |-> bB, C |-> bC]
    /\ rtc' = IF bB THEN flipDutyCycle(rtc) ELSE rtc
    /\ pc' = IF bB THEN "toggle_time" ELSE "btnC"
    /\ UNCHANGED <<now, deviceConnected, cb, wakeAt, bootReason, atHalt, lastExt, last>>

\* toggleDutyCycle, line 165 -> line 53.
toggle_time ==
    /\ pc = "toggle_time"
    /\ rtc' = timeSleepTarget(rtc, now)
    /\ lastExt' = [op |-> "toggleDutyCycle", t |-> now, e |-> DUTY_CYCLE_AWAKE,
                                   act |-> lastExt.act, old |-> 0]
    /\ pc' = "toggle_add"
    /\ UNCHANGED <<now, deviceConnected, cb, btn, wakeAt, bootReason, atHalt, last>>

\* toggleDutyCycle, line 165 -> line 54.
toggle_add ==
    /\ pc = "toggle_add"
    /\ rtc' = addSleepTarget(rtc, DUTY_CYCLE_AWAKE)
    /\ pc' = "btnC"
    /\ UNCHANGED <<now, deviceConnected, cb, btn, wakeAt, bootReason, atHalt, lastExt, last>>

\* loop, line 176.
loop_btnC ==
    /\ pc = "btnC"
    /\ IF btn.C
       THEN Reset(btn)
       ELSE /\ pc' = "time"
            /\ UNCHANGED <<now, rtc, deviceConnected, cb, btn, wakeAt, bootReason, atHalt,
                           lastExt, last>>

\* loop, line 178.
loop_time ==
    /\ pc = "time"
    /\ rtc' = timeTimestamp(rtc, now)
    /\ pc' = "cmp"
    /\ UNCHANGED <<now, deviceConnected, cb, btn, wakeAt, bootReason, atHalt, lastExt, last>>

\* loop, line 180: the test; when it fails the pass is over.
loop_cmp ==
    /\ pc = "cmp"
    /\ IF sleepCondition(rtc)
       THEN /\ pc' = "sleep"
            /\ UNCHANGED <<btn, last>>
       ELSE /\ pc' = "loop"
            /\ btn' = NoButtons
            /\ last' = LoopRecord(0, "continue", btn)
    /\ UNCHANGED <<now, rtc, deviceConnected, cb, wakeAt, bootReason, atHalt, lastExt>>

\* loop, line 181: the call of M5.Power.deepSleep.
loop_sleep ==
    /\ pc = "sleep"
    /\ rtc' = rtc
    /\ last' = LoopRecord(loopHalt, "sleep", btn)
    /\ Halt(loopHalt)
    /\ UNCHANGED <<now, deviceConnected, bootReason, lastExt>>

\* onConnect, line 65 -> line 53.
onConnect_time ==
    /\ BleUp
    /\ cb = "idle"
    /\ ~deviceConnected
    /\ rtc' = timeSleepTarget(rtc, now)
    /\ lastExt' = [op |-> "onConnect", t |-> now, e |-> ACTIVITY_TIMEOUT, act |-> now,
                    old |-> rtc.sleepTarget]
    /\ cb' = "connect_add"
    /\ UNCHANGED <<now, deviceConnected, pc, btn, wakeAt, bootReason, atHalt, last>>

\* onConnect, line 65 -> line 54, then lines 66-67.
onConnect_add ==
    /\ cb = "connect_add"
    /\ rtc' = addSleepTarget(rtc, ACTIVITY_TIMEOUT)
    /\ deviceConnected' = TRUE
    /\ cb' = "idle"
    /\ lastExt' = CallDone(lastExt, "onConnect")
    /\ last' = OpRecord("onConnect", 0, "continue", {}, 0)
    /\ UNCHANGED <<now, pc, btn, wakeAt, bootReason, atHalt>>

\* onRead -> updateRandTemp, line 89 -> line 53.
onRead_time ==
    /\ BleUp
    /\ cb = "idle"
    /\ deviceConnected
    /\ rtc' = timeSleepTarget(rtc, now)
    /\ lastExt' = [op |-> "onRead", t |-> now, e |-> ACTIVITY_TIMEOUT, act |-> now,
                    old |-> rtc.sleepTarget]
    /\ cb' = "read_add"
    /\ UNCHANGED <<now, deviceConnected, pc, btn, wakeAt, bootReason, atHalt, last>>

\* onRead -> updateRandTemp, line 89 -> line 54.
onRead_add ==
    /\ cb = "read_add"
    /\ rtc' = addSleepTarget(rtc, ACTIVITY_TIMEOUT)
    /\ cb' = "read_temp"
    /\ lastExt' = CallDone(lastExt, "onRead")
    /\ UNCHANGED <<now, deviceConnected, pc, btn, wakeAt, bootReason, atHalt, last>>

\* onRead -> updateRandTemp, lines 90-92, and line 103.
onRead_temp(r) ==
    /\ cb = "read_temp"
    /\ rtc' = [rtc EXCEPT !.curTemp = randTemp(r)]
    /\ cb' = "idle"
    /\ last' = OpRecord("onRead", 0, "continue", {}, r)
    /\ UNCHANGED <<now, deviceConnected, pc, btn, wakeAt, bootReason, atHalt, lastExt>>

NextIL ==
    \/ TickIL
    \/ wake
    \/ setup_begin
    \/ setup_time
    \/ setup_add
    \/ \E bA \in BOOLEAN, bB \in BOOLEAN, bC \in BOOLEAN : loop_update(bA, bB, bC)
    \/ toggle_time
    \/ toggle_add
    \/ loop_btnC
    \/ loop_time
    \/ loop_cmp
    \/ loop_sleep
    \/ onConnect_time
    \/ onConnect_add
    \/ onRead_time
    \/ onRead_add
    \/ \E r \in RandValues : onRead_temp(r)
    \/ onDisconnect

SpecIL == Init /\ [][NextIL]_vars

\* ------------------------------------------------------------------ claims

\* A step that completes an operation (setup, a pass of loop, a BLE callback).
OpStep == last'.n # last.n

\* A step that completes a pass of loop in which M5.Power.reset() was called.
ResetStep == OpStep /\ last'.outcome = "reset"

\* C1: every pass of loop that reaches line 178 stores the clock into timestamp and
\* then orders a deep sleep if and only if dutyCycle is true and timestamp is
\* greater than sleepTarget; the sleep it orders is DUTY_CYCLE_SLEEP seconds, and
\* the device is halted exactly when it was ordered.
C1_LoopSleepsIffDutyCycleAndPastTarget ==
    [][(OpStep /\ last'.op = "loop" /\ last'.outcome # "reset")
        => /\ timestamp' = now
           /\ (last'.order = DUTY_CYCLE_SLEEP * 1000000) <=> (dutyCycle' /\ timestamp' > sleepTarget')
           /\ last'.order \in {0, DUTY_CYCLE_SLEEP * 1000000}
           /\ (pc' = "asleep") <=> (last'.order # 0)]_vars

\* C1 witness: a pass of loop with dutyCycle false and sleepTarget already in the
\* past has gone on without ordering a sleep.
C1_Witness ==
    /\ last.op = "loop"
    /\ last.outcome = "continue"
    /\ ~dutyCycle
    /\ timestamp > sleepTarget
    /\ pc = "loop"

\* C2 as claimed: no operation started or finished with dutyCycle false orders a
\* halt.
C2_Original_NoHaltWhileDutyCycleOff ==
    [][(OpStep /\ (~dutyCycle \/ ~dutyCycle')) => last'.order = 0]_vars

\* C2 amended: the only halt ordered by an operation started or finished with
\* dutyCycle false is the 10 ms halt of onDisconnect; a pass of loop orders none.
C2_OnlyDisconnectHaltsWhileDutyCycleOff ==
    [][(OpStep /\ (~dutyCycle \/ ~dutyCycle') /\ last'.order # 0)
        => (last'.op = "onDisconnect" /\ last'.order = 10 * 1000)]_vars

\* C2 witness: onDisconnect has halted the device while dutyCycle is false.
C2_Witness ==
    /\ last.op = "onDisconnect"
    /\ ~dutyCycle
    /\ pc = "asleep"

SetupAfterWake == pc = "boot" /\ bootReason = "wake" /\ OpStep /\ last'.op = "setup"

\* C6 as claimed: when setup has run after a wake, all four RTC fields have the
\* value they had at the halt.
C6_Original_AllFieldsSameAfterResume ==
    [][SetupAfterWake => rtc' = atHalt]_vars

\* C6 amended: the four RTC fields come out of the halt unchanged, and when setup
\* has run after the wake timestamp, dutyCycle and curTemp still have the value
\* they had at the halt, while sleepTarget is the clock plus DUTY_CYCLE_AWAKE.
C6_FieldsRetainedAndTargetReanchored ==
    [][SetupAfterWake
        => /\ rtc = atHalt
           /\ rtc' = [atHalt EXCEPT !.sleepTarget = now + DUTY_CYCLE_AWAKE]]_vars

\* C6 witness: setup has run after a wake, with non-initial values in timestamp,
\* dutyCycle and curTemp.
C6_Witness ==
    /\ last.op = "setup"
    /\ last.boot = "wake"
    /\ dutyCycle
    /\ curTemp # 0
    /\ timestamp # 0

\* C7: whenever loop has called the duty-cycle deepSleep, dutyCycle is true and
\* timestamp is greater than the value sleepTarget has at that call.
C7_SleepConditionHoldsAtDeepSleep ==
    (pc = "asleep" /\ last.op = "loop")
        => (dutyCycle /\ timestamp > sleepTarget)

\* C8: of two passes of loop in succession that both call toggleDutyCycle, the
\* second restores dutyCycle to its value before the first, and each leaves
\* sleepTarget at the clock of its call plus DUTY_CYCLE_AWAKE.
C8_DoubleToggleRestores ==
    [][(OpStep /\ Toggled(last) /\ Toggled(last'))
        => /\ dutyCycle' = last.pre.dutyCycle
           /\ dutyCycle = ~last.pre.dutyCycle
           /\ sleepTarget = lastExt.t + DUTY_CYCLE_AWAKE
           /\ sleepTarget' = now + DUTY_CYCLE_AWAKE]_vars

\* C8 witness: two toggling passes in succession have happened, at different clock
\* times.
C8_Witness ==
    /\ Toggled(last)
    /\ last.prevToggled
    /\ sleepTarget > last.pre.sleepTarget

\* C9: curTemp is always within [-10, 40], and after onRead it is
\* (r % 40) - 10 for the value r that rand() returned.
C9_CurTempInRange ==
    /\ curTemp \in -10 .. 40
    /\ last.op = "none" => curTemp = 0
    /\ last.op = "onRead" => curTemp = (last.r % 40) - 10

\* C9 witness: onRead has stored the temperature for rand() = RAND_MAX.
C9_Witness ==
    /\ last.op = "onRead"
    /\ last.r = RAND_MAX
    /\ curTemp = -3

\* C10: every onDisconnect clears deviceConnected, orders a halt of 10 ms (not of
\* DUTY_CYCLE_SLEEP seconds), halts the device at once and writes none of the RTC
\* fields.
C10_OnDisconnectShortHaltOnly ==
    [][(OpStep /\ last'.op = "onDisconnect")
        => /\ deviceConnected /\ ~deviceConnected'
           /\ last'.order = 10 * 1000
           /\ last'.order # DUTY_CYCLE_SLEEP * 1000000
           /\ pc' = "asleep"
           /\ wakeAt' = now
           /\ rtc' = rtc]_vars

\* C10 witness: onDisconnect has halted the device with dutyCycle true and the
\* deadline not yet reached.
C10_Witness ==
    /\ last.op = "onDisconnect"
    /\ pc = "asleep"
    /\ dutyCycle
    /\ now < sleepTarget


\* C11: in every pass of loop each of the three button commands is dispatched
\* when its button was released: clear-display for BtnA, toggle-duty-cycle for
\* BtnB, full-device-reset for BtnC.
C11_EveryButtonCommandDispatched ==
    last.op = "loop"
        => /\ last.btn.A => "clear" \in last.cmds
           /\ last.btn.B => "toggle" \in last.cmds
           /\ last.btn.C => "reset" \in last.cmds


\* C12: once onConnect or onRead has extended the deadline at time t, no pass of
\* loop orders the duty-cycle sleep at a sampled time <= t + ACTIVITY_TIMEOUT,
\* whatever toggleDutyCycle calls and further connect or read events lie between
\* (lastExt.act is the latest such t since boot).
C12_NoSleepWithinActivityTimeout ==
    (last.op = "loop" /\ last.outcome = "sleep" /\ lastExt.act >= 0)
        => timestamp > lastExt.act + ACTIVITY_TIMEOUT


\* C13: when loop's test at line 180 passes while a callback's prolongSleep is
\* between its two statements, the sleep is one that the deadline before the call
\* or the deadline after the call permits.
C13_InterleavedSleepPermittedByOldOrNew ==
    [][(/\ pc = "cmp"
        /\ pc' = "sleep"
        /\ cb \in {"connect_add", "read_add"}
        /\ lastExt.op \in {"onConnect", "onRead"})
        => \/ timestamp > lastExt.old
           \/ timestamp > lastExt.t + lastExt.e]_vars


\* C14: a pass of loop that dispatches no button command leaves sleepTarget,
\* dutyCycle, curTemp and deviceConnected as they were, whether it orders a sleep
\* or not; of the fields only timestamp is written.
C14_LoopWithoutCommandWritesOnlyTimestamp ==
    [][(OpStep /\ last'.op = "loop" /\ last'.cmds = {})
        => /\ sleepTarget' = sleepTarget
           /\ dutyCycle' = dutyCycle
           /\ curTemp' = curTemp
           /\ deviceConnected' = deviceConnected]_vars

\* A pass of loop without a command has ordered the sleep, and the fields hold
\* values other than their initial ones.
C14_Witness ==
    /\ last.op = "loop"
    /\ last.cmds = {}
    /\ last.outcome = "sleep"
    /\ pc = "asleep"
    /\ curTemp # 0
    /\ sleepTarget # 0
    /\ timestamp > sleepTarget


\* C15: when setup runs after a wake from a halt (duty-cycle sleep or disconnect
\* halt) and finishes at clock time w', it leaves sleepTarget = w' +
\* DUTY_CYCLE_AWAKE; and a pass of loop that follows setup with no connect, read
\* or toggle in between and samples a time <= w' + DUTY_CYCLE_AWAKE orders no
\* sleep, the first pass after the wake included.
C15_SetupReanchorsAfterResume ==
    [][/\ SetupAfterWake => sleepTarget' = now + DUTY_CYCLE_AWAKE
       /\ (/\ OpStep
           /\ last'.op = "loop"
           /\ lastExt.op = "setup"
           /\ now <= lastExt.t + DUTY_CYCLE_AWAKE)
           => last'.outcome # "sleep"]_vars

\* After a wake with dutyCycle on, a pass of loop sampled exactly the last second
\* of the awake period and the device stayed awake.
C15_Witness ==
    /\ last.op = "loop"
    /\ last.outcome = "continue"
    /\ last.cmds = {}
    /\ lastExt.op = "setup"
    /\ lastExt.t >= DUTY_CYCLE_SLEEP
    /\ dutyCycle
    /\ timestamp = lastExt.t + DUTY_CYCLE_AWAKE
    /\ sleepTarget = lastExt.t + DUTY_CYCLE_AWAKE


\* C16: with fair loop passes and a fair clock, once events have ceased and while
\* dutyCycle is true, an awake device whose deadline lies within the clock's
\* horizon is eventually sent into the duty-cycle sleep by loop, and a device in
\* the duty-cycle sleep whose wake time lies within the horizon is eventually
\* awake in loop again: it stays neither awake nor asleep.
C16_DutyCycleAlternates ==
    /\ (pc = "loop" /\ dutyCycle /\ Quiet /\ sleepTarget < MaxClock)
           ~> (pc = "asleep" /\ last.op = "loop" /\ last.outcome = "sleep")
    /\ (pc = "asleep" /\ last.op = "loop" /\ now + DUTY_CYCLE_SLEEP <= MaxClock)
           ~> (pc = "loop")

\* In the quiet phase the device, woken from a halt and re-anchored by setup, has
\* been sent into the duty-cycle sleep again.
C16_Witness ==
    /\ Quiet
    /\ pc = "asleep"
    /\ last.op = "loop"
    /\ last.outcome = "sleep"
    /\ dutyCycle
    /\ lastExt.op = "setup"
    /\ lastExt.t >= QuietFrom + DUTY_CYCLE_SLEEP


\* C17: whenever loop has ordered the duty-cycle sleep, no client is connected
\* (deviceConnected is false).
C17_NoDutyCycleSleepWhileConnected ==
    (pc = "asleep" /\ last.op = "loop" /\ last.outcome = "sleep") => ~deviceConnected

\* C18: timestamp never exceeds the clock and sleepTarget never exceeds the clock
\* plus ACTIVITY_TIMEOUT; and with dutyCycle true a pass of loop that samples a
\* time more than ACTIVITY_TIMEOUT seconds after the last extending operation
\* (setup, toggle, connect or read) orders the sleep.
C18_DeadlineBoundedSoSleepFollows ==
    /\ timestamp <= now
    /\ sleepTarget <= now + ACTIVITY_TIMEOUT
    /\ (/\ last.op = "loop"
        /\ last.outcome # "reset"
        /\ dutyCycle
        /\ lastExt.op # "none"
        /\ timestamp > lastExt.t + ACTIVITY_TIMEOUT)
        => last.outcome = "sleep"

=============================================================================
